---- MODULE Spec2Model ----
(***************************************************************************)
(* Model of geoip.go: the Go binding around libGeoIP.                      *)
(*                                                                         *)
(* One caller goroutine (pc, frame, ret) issues Open, Lookup and Close.    *)
(* Open is split at its call into libGeoIP, where the mask it passes and   *)
(* the pointer and errno it gets back are visible.  No other goroutine     *)
(* exists: the runtime.SetFinalizer call of Open aborts the process (see   *)
(* OpenSetFinalizerAbort), so no finalizer is ever registered.             *)
(*                                                                         *)
(* Values: a C pointer is 0 (NULL) or a positive id; a Go *DB is 0 (nil)   *)
(* or an index into dbs; an optional value (a C string, a native record    *)
(* pointer, a *Record, a *Options, an error) is <<>> when nil/NULL and     *)
(* <<v>> otherwise.                                                        *)
(***************************************************************************)
EXTENDS Integers, Sequences, FiniteSets, TLC

VARIABLES
    dbs,       \* the DB objects allocated by Open: dbs[i] = [g |-> C pointer]
    orig,      \* orig[i]: the native pointer dbs[i] was constructed with
    deletes,   \* deletes[p]: number of GeoIP_delete(p) calls on native handle p
    closes,    \* closes[i]: number of completed Close calls on dbs[i]
    pc,        \* position of the caller goroutine
    frame,     \* locals of the caller's call in progress
    ret,       \* what the caller's last completed call returned
    held,      \* the *DB values Open has returned to the caller so far
    liveRecs,  \* native GeoIPRecords allocated and not yet deleted
    crash      \* "none", or how the process died

vars == <<dbs, orig, deletes, closes, pc, frame, ret, held, liveRecs, crash>>

----------------------------------------------------------------------------
(* Bounds *)

MaxOpens == 3      \* native handles GeoIP_open hands out in one run
MaxCloses == 2     \* Close calls counted per DB

----------------------------------------------------------------------------
(* GeoIP.h option flags, referenced by geoip.go *)

GEOIP_STANDARD == 0
GEOIP_MEMORY_CACHE == 1
GEOIP_CHECK_CACHE == 2
GEOIP_INDEX_CACHE == 4
GEOIP_MMAP_CACHE == 8

CacheDefault == GEOIP_STANDARD
CacheAll == GEOIP_MEMORY_CACHE
CacheMRU == GEOIP_INDEX_CACHE

Strategies == {CacheDefault, CacheAll, CacheMRU}

\* CachingStrategy is an int: values outside the three constants are passed
\* through unvalidated, so one such value is among the inputs.
CachingValues == Strategies \cup {GEOIP_CHECK_CACHE}

Options == [Caching : CachingValues, ReloadOnUpdate : BOOLEAN, UseMMap : BOOLEAN]

\* Go's | on non-negative integers
RECURSIVE BitOr(_, _)
BitOr(a, b) ==
    IF a = 0 THEN b
    ELSE IF b = 0 THEN a
    ELSE (IF a % 2 = 1 \/ b % 2 = 1 THEN 1 ELSE 0) + 2 * BitOr(a \div 2, b \div 2)

RECURSIVE BitAnd(_, _)
BitAnd(a, b) ==
    IF a = 0 \/ b = 0 THEN 0
    ELSE (IF a % 2 = 1 /\ b % 2 = 1 THEN 1 ELSE 0) + 2 * BitAnd(a \div 2, b \div 2)

HasBits(v, m) == BitAnd(v, m) = m

\* mutant: the UseMMap test is lost and the mmap flag is always set
bitmask_AlwaysMMap(o) ==
    BitOr(IF o.ReloadOnUpdate THEN BitOr(o.Caching, GEOIP_CHECK_CACHE) ELSE o.Caching,
          GEOIP_MMAP_CACHE)

\* func (o Options) bitmask() int32
bitmask(o) ==
    LET v0 == o.Caching
        v1 == IF o.ReloadOnUpdate THEN BitOr(v0, GEOIP_CHECK_CACHE) ELSE v0
        v2 == IF o.UseMMap THEN BitOr(v1, GEOIP_MMAP_CACHE) ELSE v1
    IN v2

DefaultOptions == [Caching |-> CacheDefault, ReloadOnUpdate |-> TRUE, UseMMap |-> TRUE]

\* mutant: the supplied options are ignored
OpenOpts_AlwaysDefault(opts) == DefaultOptions

\* Open: if opts == nil { opts = DefaultOptions }
OpenOpts(opts) == IF opts = <<>> THEN DefaultOptions ELSE opts[1]

----------------------------------------------------------------------------
(* Records *)

\* C.GoString: a NULL char* gives "", otherwise a copy of the C string
GoString(cs) == IF cs = <<>> THEN "" ELSE cs[1]

\* GeoIPRecord values libGeoIP may hand back for a matched address
FullNative ==
    [country_code |-> <<"US">>, country_code3 |-> <<"USA">>,
     country_name |-> <<"United States">>, region |-> <<"CA">>,
     city |-> <<"Mountain View">>, postal_code |-> <<"94043">>,
     latitude |-> 37, longitude |-> -122, area_code |-> 650,
     continent_code |-> <<"NA">>]

SparseNative ==
    [country_code |-> <<"AU">>, country_code3 |-> <<"AUS">>,
     country_name |-> <<"Australia">>, region |-> <<>>,
     city |-> <<>>, postal_code |-> <<>>,
     latitude |-> -27, longitude |-> 133, area_code |-> 0,
     continent_code |-> <<"OC">>]

EmptyNative ==
    [country_code |-> <<>>, country_code3 |-> <<>>,
     country_name |-> <<>>, region |-> <<"">>,
     city |-> <<>>, postal_code |-> <<>>,
     latitude |-> 0, longitude |-> 0, area_code |-> 0,
     continent_code |-> <<>>]

NativeRecords == {FullNative, SparseNative, EmptyNative}

\* what GeoIP_record_by_addr may return: NULL or a pointer to a fresh record
NativeResults == {<<>>} \cup {<<n>> : n \in NativeRecords}

\* Lookup: the &Record{...} literal; float64(float) and int(C int) keep the value
CopyRecord(r) ==
    [CountryCode |-> GoString(r.country_code),
     CountryCode3 |-> GoString(r.country_code3),
     CountryName |-> GoString(r.country_name),
     Region |-> GoString(r.region),
     City |-> GoString(r.city),
     PostalCode |-> GoString(r.postal_code),
     Latitude |-> r.latitude,
     Longitude |-> r.longitude,
     AreaCode |-> r.area_code,
     ContinentCode |-> GoString(r.continent_code)]

\* Lookup: defer C.GeoIPRecord_delete(r), run when Lookup returns
DeferredDelete(n) == n - 1

----------------------------------------------------------------------------
(* DB objects *)

\* Open: db := &DB{g: g}
NewDB(g) == [g |-> g]

\* Close: db.g = nil
CloseClear(db) == [db EXCEPT !.g = 0]

\* Close: if db.g != nil
CloseMustDelete(db) == db.g # 0

\* errno values the cgo call may report (0: none, 2: ENOENT)
Errnos == {0, 2}

\* the error value of a two-result cgo call: nil iff errno is 0
CgoErr(errno) == IF errno = 0 THEN <<>> ELSE <<errno>>

Idle == [op |-> "none"]

----------------------------------------------------------------------------
Init ==
    /\ dbs = <<>>
    /\ orig = <<>>
    /\ deletes = <<>>
    /\ closes = <<>>
    /\ pc = "idle"
    /\ frame = Idle
    /\ ret = Idle
    /\ held = {}
    /\ liveRecs = 0
    /\ crash = "none"

Running == crash = "none"

\* the *DB values the caller can pass as receiver: it keeps every pointer Open
\* returned, across calls
Handles == held

----------------------------------------------------------------------------
(* Open *)

\* Open entered: lines 79-86, up to the call of C.GeoIP_open with the bitmask
OpenCall(opts) ==
    /\ Running /\ pc = "idle"
    /\ Len(deletes) < MaxOpens
    /\ pc' = "open_native"
    /\ frame' = [op |-> "Open", arg |-> opts, mask |-> bitmask(OpenOpts(opts))]
    /\ UNCHANGED <<dbs, orig, deletes, closes, ret, held, liveRecs, crash>>

\* C.GeoIP_open returns: a pointer (NULL or a fresh handle) and errno
OpenNative(fresh, errno) ==
    /\ Running /\ pc = "open_native"
    /\ LET g == IF fresh THEN Len(deletes) + 1 ELSE 0
       IN /\ deletes' = IF fresh THEN Append(deletes, 0) ELSE deletes
          /\ frame' = [op |-> "Open", g |-> g, err |-> CgoErr(errno)]
    /\ pc' = "open_ret"
    /\ UNCHANGED <<dbs, orig, closes, ret, held, liveRecs, crash>>

\* lines 87-89: if err != nil { return nil, err }
OpenFail ==
    /\ Running /\ pc = "open_ret" /\ frame.err # <<>>
    /\ ret' = [op |-> "Open", db |-> 0, err |-> frame.err, g |-> frame.g]
    /\ held' = held \cup {0}
    /\ pc' = "idle" /\ frame' = Idle
    /\ UNCHANGED <<dbs, orig, deletes, closes, liveRecs, crash>>

\* line 90 with g == NULL: GeoIP_set_charset writes through the null pointer,
\* which is undefined in C; the process may die there (or go on to line 92)
OpenNullCrash ==
    /\ Running /\ pc = "open_ret" /\ frame.err = <<>> /\ frame.g = 0
    /\ crash' = "native"
    /\ UNCHANGED <<dbs, orig, deletes, closes, pc, frame, ret, held, liveRecs>>

\* lines 90-93: set_charset, db := &DB{g: g}, runtime.SetFinalizer(g, db.Close).
\* g is a pointer libGeoIP allocated (or NULL), not the start of a Go heap
\* object, and db.Close takes no argument: the runtime aborts the process
\* with a fatal error in SetFinalizer.  Line 94 is never reached: Open
\* returns no DB and registers no finalizer.
OpenSetFinalizerAbort ==
    /\ Running /\ pc = "open_ret" /\ frame.err = <<>>
    /\ dbs' = Append(dbs, NewDB(frame.g))
    /\ orig' = Append(orig, frame.g)
    /\ closes' = Append(closes, 0)
    /\ crash' = "setfinalizer"
    /\ UNCHANGED <<deletes, pc, frame, ret, held, liveRecs>>

----------------------------------------------------------------------------
(* Lookup *)

\* the native handle db.g is usable: not NULL and not yet deleted
Usable(db) == db.g # 0 /\ deletes[db.g] = 0

\* func (db *DB) Lookup: r is what C.GeoIP_record_by_addr returns.
\* line 102 on a nil *DB: reading db.g panics.
\* line 102 with db.g NULL or deleted: undefined in libGeoIP; the process
\*   dies, or the call reports no record.
\* lines 103-105: no record, return nil.
\* lines 106-119: the Record is built from r, then the deferred
\*   GeoIPRecord_delete(r) runs and the Record is returned.
Lookup(h, r, dies) ==
    /\ Running /\ pc = "idle" /\ h \in Handles
    /\ IF h = 0
       THEN /\ crash' = "nil_deref"
            /\ frame' = [op |-> "Lookup", db |-> h]
            /\ UNCHANGED <<ret, liveRecs>>
       ELSE IF ~Usable(dbs[h]) /\ (dies \/ r # <<>>)
       THEN /\ crash' = "native"
            /\ frame' = [op |-> "Lookup", db |-> h]
            /\ UNCHANGED <<ret, liveRecs>>
       ELSE IF r = <<>>
       THEN /\ ret' = [op |-> "Lookup", db |-> h, rec |-> <<>>, r |-> <<>>]
            /\ UNCHANGED <<frame, liveRecs, crash>>
       ELSE /\ ret' = [op |-> "Lookup", db |-> h,
                       rec |-> <<CopyRecord(r[1])>>, r |-> r]
            /\ liveRecs' = DeferredDelete(liveRecs + 1)
            /\ UNCHANGED <<frame, crash>>
    /\ UNCHANGED <<dbs, orig, deletes, closes, pc, held>>

----------------------------------------------------------------------------
(* Close *)

\* the effect of C.GeoIP_delete(p) on the native handles; libGeoIP returns at
\* once for a NULL argument
NativeDelete(p) == IF p = 0 THEN deletes ELSE [deletes EXCEPT ![p] = @ + 1]

\* func (db *DB) Close.
\* line 124 on a nil *DB: reading db.g panics.
\* lines 124-126: if db.g != nil { C.GeoIP_delete(db.g) }
\* lines 127-128: db.g = nil; return nil
Close(h) ==
    /\ Running /\ pc = "idle" /\ h \in Handles
    /\ IF h = 0
       THEN /\ crash' = "nil_deref"
            /\ frame' = [op |-> "Close", db |-> h]
            /\ UNCHANGED <<dbs, deletes, closes, ret>>
       ELSE /\ closes[h] < MaxCloses
            /\ deletes' = IF CloseMustDelete(dbs[h])
                          THEN NativeDelete(dbs[h].g) ELSE deletes
            /\ dbs' = [dbs EXCEPT ![h] = CloseClear(@)]
            /\ closes' = [closes EXCEPT ![h] = @ + 1]
            /\ ret' = [op |-> "Close", db |-> h, err |-> <<>>]
            /\ UNCHANGED <<frame, crash>>
    /\ UNCHANGED <<orig, pc, held, liveRecs>>

----------------------------------------------------------------------------
(* Specification *)

OptArgs == {<<>>} \cup {<<o>> : o \in Options}

Next ==
    \/ \E opts \in OptArgs : OpenCall(opts)
    \/ \E fresh \in BOOLEAN, e \in Errnos : OpenNative(fresh, e)
    \/ OpenFail
    \/ OpenNullCrash
    \/ OpenSetFinalizerAbort
    \/ \E h \in Handles, r \in NativeResults, dies \in BOOLEAN : Lookup(h, r, dies)
    \/ \E h \in Handles : Close(h)

Spec == Init /\ [][Next]_vars

----------------------------------------------------------------------------
(* Properties *)

\* C2: Close on the handle value a failed Open returned (a nil *DB) never
\* crashes.
C2_CloseAfterFailedOpen ==
    (frame.op = "Close" /\ frame.db = 0) => crash = "none"

\* C3: Open returns either a DB wrapping a non-null native pointer and a nil
\* error, or a nil DB and an error; when the native open returns NULL, Open
\* returns an error (and does not die on the way).
C3_OpenOutcome ==
    /\ ret.op = "Open" =>
          /\ \/ ret.err = <<>> /\ ret.db # 0 /\ orig[ret.db] # 0
             \/ ret.err # <<>> /\ ret.db = 0
          /\ ret.g = 0 => ret.err # <<>>
    /\ (pc = "open_ret" /\ frame.g = 0) => crash = "none"

\* C5: for each of the three caching strategies and each reload and mmap
\* flag, the bitmask handed to GeoIP_open contains the strategy's bits, the
\* check-cache bit iff ReloadOnUpdate, and the mmap bit iff UseMMap.
C5_BitmaskBits ==
    (pc = "open_native" /\ frame.arg # <<>> /\ frame.arg[1].Caching \in Strategies) =>
        LET o == frame.arg[1]
            m == frame.mask
        IN /\ HasBits(m, o.Caching)
           /\ HasBits(m, GEOIP_CHECK_CACHE) <=> o.ReloadOnUpdate
           /\ HasBits(m, GEOIP_MMAP_CACHE) <=> o.UseMMap

\* GeoIP_open is being called for CacheMRU without reload, with mmap
C5_Witness ==
    /\ pc = "open_native"
    /\ frame.arg = <<[Caching |-> CacheMRU, ReloadOnUpdate |-> FALSE, UseMMap |-> TRUE]>>
    /\ frame.mask = 12

\* C8: with nil options GeoIP_open is called with the bitmask of the
\* documented default (no caching bit, check-cache and mmap set); with
\* options supplied it is called with the bitmask of those options.
C8_DefaultOptions ==
    pc = "open_native" =>
        IF frame.arg = <<>>
        THEN /\ frame.mask = GEOIP_STANDARD + GEOIP_CHECK_CACHE + GEOIP_MMAP_CACHE
             /\ ~HasBits(frame.mask, GEOIP_MEMORY_CACHE)
             /\ ~HasBits(frame.mask, GEOIP_INDEX_CACHE)
        ELSE frame.mask = bitmask(frame.arg[1])

\* GeoIP_open is being called for an Open with nil options
C8_Witness ==
    pc = "open_native" /\ frame.arg = <<>> /\ frame.mask = 10

\* C10: when Open returns an error, the native handle its GeoIP_open call
\* produced, if any, has been released.
C10_NoLeakOnError ==
    (ret.op = "Open" /\ ret.err # <<>> /\ ret.g # 0) => deletes[ret.g] >= 1

====
